---- MODULE Spec2Model ----
(***************************************************************************)
(* bleak_retry_connector/__init__.py as a state machine.                   *)
(*                                                                         *)
(*   ResolverSpec : get_bluez_device / freshen_ble_device / get_device     *)
(*                  applied to a property snapshot and a handle drawn from *)
(*                  bounded sets.                                          *)
(*   Spec         : one call of establish_connection, one action per       *)
(*                  stretch of the retry loop between suspension points.   *)
(*   ClientSpec   : the methods of a BleakClientWithServiceCache object    *)
(*                  called on a client, a property snapshot and platform   *)
(*                  flags drawn from bounded sets.                         *)
(*                                                                         *)
(* Python values: an optional int (rssi) is <<>> for None and <<n>> for n; *)
(* a str(exc) message is the set of the error codes it contains, so that   *)
(* `code in str(exc)` is membership.                                       *)
(***************************************************************************)
EXTENDS Integers, Sequences, FiniteSets, TLC

VARIABLES
    \* ---- the resolver call (ResolverSpec) ----
    properties,      \* manager._properties, the snapshot the call reads; under
                     \* Spec the snapshot read by the step that led to the
                     \* state (EmptySnapshot when that step read none)
    manager_ok,      \* FALSE: get_global_bluez_manager() raises
    call,            \* the call made: [fn, path, rssi], or NoCall
    ret,             \* what get_bluez_device computed (see get_bluez_device)
    \* ---- one establish_connection call (Spec) ----
    max_attempts, cached_services, has_callback, client_class,
    timeouts, connect_errors, transient_errors, attempt,
    can_use_cached_services, create_client,
    device,          \* the BLEDevice in use
    client,          \* the client object in use, or NoClient
    pc,              \* where the coroutine stands
    stale_closed,    \* this attempt called disconnect_device (line 406)
    slept,           \* the failed attempt slept BLEAK_DBUS_BACKOFF_TIME
    exc,             \* the exception the connect of this attempt raised, or NoExc
    raised,          \* the exception that left the call, or NoRaise
    callback_pending,  \* a disconnect notification of the failed connect
                       \* is scheduled on the event loop and has not run
    \* ---- the platform (module level, lines 20 and 34-36) ----
    IS_LINUX,        \* IS_LINUX = CAN_CACHE_SERVICES
    BLEAK_HAS_SERVICE_CACHE_SUPPORT

resolver_vars == <<properties, manager_ok, call, ret>>
connect_vars == <<max_attempts, cached_services, has_callback, client_class,
                  timeouts, connect_errors, transient_errors, attempt,
                  can_use_cached_services, create_client, device, client,
                  pc, stale_closed, slept, exc, raised, callback_pending>>
platform_vars == <<IS_LINUX, BLEAK_HAS_SERVICE_CACHE_SUPPORT>>
vars == <<properties, manager_ok, call, ret,
          max_attempts, cached_services, has_callback, client_class,
          timeouts, connect_errors, transient_errors, attempt,
          can_use_cached_services, create_client, device, client,
          pc, stale_closed, slept, exc, raised, callback_pending,
          IS_LINUX, BLEAK_HAS_SERVICE_CACHE_SUPPORT>>

(***************************************************************************)
(* Module constants                                                        *)
(***************************************************************************)
UNREACHABLE_RSSI == -1000
RSSI_SWITCH_THRESHOLD == 6
MAX_TRANSIENT_ERRORS == 9
\* range(0, 9) of _get_possible_paths
NUM_POSSIBLE_PATHS == 9

DEVICE_INTERFACE == "org.bluez.Device1"
TRANSIENT_ERRORS == {"le-connection-abort-by-local", "br-connection-canceled"}
DEVICE_MISSING_ERRORS == {"org.freedesktop.DBus.Error.UnknownObject"}
ABORT_ERRORS == TRANSIENT_ERRORS
ABORT_ADVICE == "Interference/range; External Bluetooth adapter w/extension may help; Extension cables reduce USB 3 port interference"
DEVICE_MISSING_ADVICE == "The device disappeared; Try restarting the scanner or moving the device closer"
NOT_FOUND == "not found"

(***************************************************************************)
(* Bounds of the model                                                     *)
(***************************************************************************)
\* adapters hci0 .. hci(MaxAdapters-1) may hold the device in a snapshot
MaxAdapters == 3
\* establish_connection is called with max_attempts in 0 .. MaxAttemptsArg
MaxAttemptsArg == 3

(***************************************************************************)
(* Python values                                                           *)
(***************************************************************************)
PyNone == <<>>
\* bool(x) of an optional int: None and 0 are falsy
Truthy(x) == x # PyNone /\ x[1] # 0
\* `x or UNREACHABLE_RSSI`
OrUnreachable(x) == IF Truthy(x) THEN x[1] ELSE UNREACHABLE_RSSI

Addresses == {"AA:BB", "CC:DD"}
\* the character of a path at offset 14: a digit, or the X of a placeholder
Digit(i) == <<"0", "1", "2", "3", "4", "5", "6", "7", "8", "9">>[i + 1]
\* "/org/bluez/hci<hci>/dev_<dev>"
Path(h, a) == [hci |-> h, dev |-> a]

\* BLEDevice(address, name, details, rssi); details is a dict with "path"
\* (BlueZ) or something without one
NoDetails == [source |-> "remote"]
BLEDevice(a, d, r) == [address |-> a, details |-> d, rssi |-> r]
HasPath(d) == "path" \in DOMAIN d.details

(***************************************************************************)
(* The resolver                                                            *)
(***************************************************************************)
_get_possible_paths(path) ==
    [i \in 1..NUM_POSSIBLE_PATHS |-> Path(Digit(i - 1), path.dev)]

address_to_bluez_path(address) == Path("X", address)

\* path in properties and DEVICE_INTERFACE in properties[path]
HasDevice(props, path) ==
    path \in DOMAIN props /\ DEVICE_INTERFACE \in DOMAIN props[path]

\* SkipCandidate without the switch threshold
SkipCandidate_NoThreshold(rssi_to_beat, device_rssi, rssi) ==
    rssi_to_beat # UNREACHABLE_RSSI
    /\ (\/ ~Truthy(rssi)
        \/ rssi[1] < rssi_to_beat)

\* SkipCandidate with the threshold added instead of subtracted
SkipCandidate_SignSlip(rssi_to_beat, device_rssi, rssi) ==
    rssi_to_beat # UNREACHABLE_RSSI
    /\ (\/ ~Truthy(rssi)
        \/ rssi[1] + RSSI_SWITCH_THRESHOLD < device_rssi
        \/ rssi[1] < rssi_to_beat)

\* SkipCandidate comparing with the handle's strength only, never with the
\* best so far
SkipCandidate_NoRunningBest(rssi_to_beat, device_rssi, rssi) ==
    rssi_to_beat # UNREACHABLE_RSSI
    /\ (\/ ~Truthy(rssi)
        \/ rssi[1] - RSSI_SWITCH_THRESHOLD < device_rssi)

\* lines 274-278: the candidate is skipped
SkipCandidate(rssi_to_beat, device_rssi, rssi) ==
    rssi_to_beat # UNREACHABLE_RSSI
    /\ (\/ ~Truthy(rssi)
        \/ rssi[1] - RSSI_SWITCH_THRESHOLD < device_rssi
        \/ rssi[1] < rssi_to_beat)

\* lines 266-282: the loop over the possible paths, from position i on;
\* st is [best_path, rssi_to_beat, found], found the paths line 282 logged
RECURSIVE ScanPaths(_, _, _, _, _, _)
ScanPaths(props, device_path, device_rssi, paths, i, st) ==
    IF i > Len(paths) THEN st
    ELSE LET path == paths[i] IN
         IF path = device_path \/ ~HasDevice(props, path)
         THEN ScanPaths(props, device_path, device_rssi, paths, i + 1, st)
         ELSE LET rssi == props[path][DEVICE_INTERFACE].RSSI IN
              IF SkipCandidate(st.rssi_to_beat, device_rssi, rssi)
              THEN ScanPaths(props, device_path, device_rssi, paths, i + 1, st)
              ELSE ScanPaths(props, device_path, device_rssi, paths, i + 1,
                             [best_path |-> path,
                              rssi_to_beat |-> OrUnreachable(rssi),
                              found |-> Append(st.found, path)])

\* StartRssi that keeps the handle's strength when the device has disappeared
StartRssi_KeepsStale(props, path, rssi) == OrUnreachable(rssi)

\* lines 250-264: the strength to beat; the sentinel when the device has
\* disappeared from the snapshot
StartRssi(props, path, rssi) ==
    IF HasDevice(props, path) THEN OrUnreachable(rssi) ELSE UNREACHABLE_RSSI

\* get_bluez_device(path, rssi): [device, found]; device is <<>> for None
\* and <<BLEDevice>> otherwise
get_bluez_device(props, ok, path, rssi) ==
    IF ~ok THEN [device |-> PyNone, found |-> <<>>]
    ELSE LET device_rssi == StartRssi(props, path, rssi)
             st == ScanPaths(props, path, device_rssi,
                             _get_possible_paths(path), 1,
                             [best_path |-> path,
                              rssi_to_beat |-> device_rssi,
                              found |-> <<>>])
         IN IF st.best_path = path
            THEN [device |-> PyNone, found |-> st.found]
            ELSE [device |->
                    <<BLEDevice(props[st.best_path][DEVICE_INTERFACE].Address,
                                [path |-> st.best_path],
                                <<st.rssi_to_beat>>)>>,
                  found |-> st.found]

freshen_ble_device(props, ok, dev) ==
    IF ~HasPath(dev) THEN [device |-> PyNone, found |-> <<>>]
    ELSE get_bluez_device(props, ok, dev.details.path, dev.rssi)

get_device(props, ok, address) ==
    get_bluez_device(props, ok, address_to_bluez_path(address), PyNone)

(***************************************************************************)
(* ResolverSpec: the resolver's entry points on a bounded snapshot         *)
(***************************************************************************)
NoCall == [fn |-> "none"]
NoClient == [address |-> "none"]
NoExc == [type |-> "none", msg |-> {}]
NoRaise == [kind |-> "none"]
NoRet == [device |-> PyNone, found |-> <<>>]

\* signal strengths a snapshot records (None: the entry has no RSSI key)
SnapRssi == {PyNone, <<0>>, <<-70>>, <<-65>>, <<-64>>, <<-63>>}
\* signal strengths a handle carries; -1000 is what the resolver itself
\* puts in a handle whose path records none
HandleRssi == {PyNone, <<0>>, <<-70>>, <<-64>>, <<UNREACHABLE_RSSI>>}

\* the entry of a path: no Device1 interface, or one with these properties
NoDeviceEntry == [i \in {} |-> i]
DeviceEntry(a, r, c) ==
    DEVICE_INTERFACE :> [Address |-> a, Alias |-> a, RSSI |-> r, Connected |-> c]

SnapPaths(a) == {Path(Digit(i), a) : i \in 0..(MaxAdapters - 1)}
ResolverEntries(a) == {NoDeviceEntry} \cup {DeviceEntry(a, r, FALSE) : r \in SnapRssi}
ResolverSnapshots ==
    UNION {[P -> ResolverEntries("AA:BB")] : P \in SUBSET SnapPaths("AA:BB")}
EmptySnapshot == [p \in {} |-> p]

ResolverHandles ==
    {BLEDevice("AA:BB", [path |-> p], r) : p \in SnapPaths("AA:BB"), r \in HandleRssi}
    \cup {BLEDevice("AA:BB", NoDetails, r) : r \in {PyNone, <<-70>>}}

\* the establish_connection variables are idle under ResolverSpec
IdleConnect ==
    /\ max_attempts = 0 /\ cached_services = FALSE /\ has_callback = FALSE
    /\ client_class = "BleakClient"
    /\ timeouts = 0 /\ connect_errors = 0 /\ transient_errors = 0 /\ attempt = 0
    /\ can_use_cached_services = TRUE /\ create_client = TRUE
    /\ device = BLEDevice("AA:BB", NoDetails, PyNone)
    /\ client = NoClient
    /\ pc = "idle" /\ stale_closed = FALSE /\ slept = FALSE
    /\ exc = NoExc /\ raised = NoRaise
    /\ callback_pending = FALSE

\* the resolver is modelled where it runs: on Linux
LinuxPlatform == IS_LINUX = TRUE /\ BLEAK_HAS_SERVICE_CACHE_SUPPORT = FALSE

ResolverInit ==
    /\ manager_ok \in BOOLEAN
    /\ properties \in (IF manager_ok THEN ResolverSnapshots ELSE {EmptySnapshot})
    /\ call = NoCall
    /\ ret = NoRet
    /\ IdleConnect
    /\ LinuxPlatform

\* freshen_ble_device(device), lines 219-229
FreshenBleDevice ==
    /\ call = NoCall
    /\ \E dev \in ResolverHandles :
         /\ call' = [fn |-> "freshen_ble_device", device |-> dev]
         /\ ret' = freshen_ble_device(properties, manager_ok, dev)
    /\ UNCHANGED <<properties, manager_ok>>
    /\ UNCHANGED connect_vars
    /\ UNCHANGED platform_vars

\* get_device(address), lines 237-243 (IS_LINUX)
GetDevice ==
    /\ call = NoCall
    /\ \E a \in Addresses :
         /\ call' = [fn |-> "get_device",
                     device |-> BLEDevice(a, [path |-> address_to_bluez_path(a)], PyNone)]
         /\ ret' = get_device(properties, manager_ok, a)
    /\ UNCHANGED <<properties, manager_ok>>
    /\ UNCHANGED connect_vars
    /\ UNCHANGED platform_vars

ResolverNext == FreshenBleDevice \/ GetDevice

ResolverSpec == ResolverInit /\ [][ResolverNext]_vars

(***************************************************************************)
(* BleakClientWithServiceCache                                             *)
(*                                                                         *)
(* A client object is [address, details, cached_services, services,        *)
(* is_connected, seeded]: _cached_services and services are "None",        *)
(* "supplied" (the collection the caller handed in) or "resolved" (the     *)
(* collection read from the live connection); seeded records that          *)
(* establish_connection called set_cached_services at construction.        *)
(***************************************************************************)
GATT_SERVICE_INTERFACE == "org.bluez.GattService1"

\* service_path.startswith(device_path) on backend paths: every segment of
\* the prefix is a segment of the path
StartsWith(path, prefix) ==
    \A seg \in DOMAIN prefix : seg \in DOMAIN path /\ path[seg] = prefix[seg]

\* lines 116-123
_has_service_cache(c, support, can_cache) ==
    ~support /\ can_cache /\ c.cached_services # "None"

\* _services_vanished looking for entries whose path is a prefix of the
\* device's path
_services_vanished_PrefixOfDevice(props, ok, c) ==
    IF ~ok \/ ~HasPath(c) THEN TRUE
    ELSE ~\E service_path \in DOMAIN props :
            /\ StartsWith(c.details.path, service_path)
            /\ GATT_SERVICE_INTERFACE \in DOMAIN props[service_path]

\* lines 172-183; an exception (no manager, no _device_path) is suppressed
\* and the services count as vanished
_services_vanished(props, ok, c) ==
    IF ~ok \/ ~HasPath(c) THEN TRUE
    ELSE ~\E service_path \in DOMAIN props :
            /\ StartsWith(service_path, c.details.path)
            /\ GATT_SERVICE_INTERFACE \in DOMAIN props[service_path]

\* lines 185-187
set_cached_services(c, services) == [c EXCEPT !.cached_services = services]

\* lines 134-136: connect drops a cache whose services have vanished
ClearVanished(c, props, ok, support, can_cache) ==
    IF _has_service_cache(c, support, can_cache) /\ _services_vanished(props, ok, c)
    THEN set_cached_services(c, "None")
    ELSE c

\* AfterConnect storing the services whatever dangerous_use_bleak_cache says
AfterConnect_AlwaysStores(c, connected, services, dangerous_use_bleak_cache, support) ==
    LET c1 == [c EXCEPT !.is_connected = connected, !.services = services]
    IN IF connected /\ ~support
       THEN set_cached_services(c1, c1.services)
       ELSE c1

\* lines 138-149: super().connect returned `connected` and left `services`
\* in self.services
AfterConnect(c, connected, services, dangerous_use_bleak_cache, support) ==
    LET c1 == [c EXCEPT !.is_connected = connected, !.services = services]
    IN IF connected /\ ~dangerous_use_bleak_cache /\ ~support
       THEN set_cached_services(c1, c1.services)
       ELSE c1

\* what super().connect may leave in self.services when it returns True:
\* the services read from the connection, or the cache when the client has
\* one (bleak's connect resolves services through get_services, line 155)
ServicesAfterConnect(c, support, can_cache) ==
    {"resolved"} \cup
    (IF _has_service_cache(c, support, can_cache) THEN {c.cached_services} ELSE {})

\* the property-store entries below a device path that the vanish check
\* looks at: none, the GATT services of the device, or an entry for the
\* adapter alone
ServiceEntry == GATT_SERVICE_INTERFACE :> [UUID |-> "180f"]
ServicePath(p, h) == [hci |-> p.hci, dev |-> p.dev, service |-> h]
AdapterPath(p) == [hci |-> p.hci]

(***************************************************************************)
(* establish_connection                                                    *)
(***************************************************************************)
\* what str(exc) of a connect failure may contain
Messages ==
    {{}, {NOT_FOUND},
     {"le-connection-abort-by-local"}, {"br-connection-canceled"},
     {"org.freedesktop.DBus.Error.UnknownObject"},
     {NOT_FOUND, "le-connection-abort-by-local"},
     {"le-connection-abort-by-local", "org.freedesktop.DBus.Error.UnknownObject"}}
Exc(t, m) == [type |-> t, msg |-> m]
\* what client.connect may raise; RuntimeError stands for every exception that is
\* none of asyncio.TimeoutError, BrokenPipeError, EOFError, AttributeError
\* and BleakError
ConnectExceptions ==
    {Exc("TimeoutError", {}), Exc("BrokenPipeError", {}), Exc("EOFError", {}),
     Exc("RuntimeError", {})}
    \cup {Exc("BleakError", m) : m \in Messages}
    \cup {Exc(t, m) : t \in {"BleakDBusError", "AttributeError"},
                      m \in {{}, {"le-connection-abort-by-local"},
                             {"org.freedesktop.DBus.Error.UnknownObject"}}}

\* isinstance(exc, BleakError): BleakDBusError is a subclass
IsBleakError(e) == e.type \in {"BleakError", "BleakDBusError"}
\* BLEAK_EXCEPTIONS = (AttributeError, BleakError)
IsBleakException(e) == e.type = "AttributeError" \/ IsBleakError(e)
\* the except clauses of lines 414, 424, 445 and 458 with BleakError alone in
\* BLEAK_EXCEPTIONS
Caught_BleakErrorOnly(e) ==
    e.type \in {"TimeoutError", "BrokenPipeError", "EOFError"} \/ IsBleakError(e)

\* an except clause of lines 414, 424, 445 or 458 catches e
Caught(e) ==
    e.type \in {"TimeoutError", "BrokenPipeError", "EOFError"} \/ IsBleakException(e)

\* any(error in str(exc) for error in codes)
AnyIn(codes, e) == \E error \in codes : error \in e.msg

\* BudgetLeft with `or` for `and`
BudgetLeft_Or(t, c, tr, ma) == t + c < ma \/ tr < MAX_TRANSIENT_ERRORS

\* BudgetLeft with `<=` for `<` on the attempt budget
BudgetLeft_OffByOne(t, c, tr, ma) == t + c <= ma /\ tr < MAX_TRANSIENT_ERRORS

\* lines 344-348: _raise_if_needed returns without raising
BudgetLeft(t, c, tr, ma) == t + c < ma /\ tr < MAX_TRANSIENT_ERRORS

\* TerminalError with the abort codes looked for before "not found"
TerminalError_AbortFirst(e) ==
    IF e.type = "TimeoutError"
    THEN [kind |-> "BleakNotFoundError", advice |-> "", cause |-> e]
    ELSE IF IsBleakError(e) /\ AnyIn(ABORT_ERRORS, e)
    THEN [kind |-> "BleakAbortedError", advice |-> ABORT_ADVICE, cause |-> e]
    ELSE IF NOT_FOUND \in e.msg
    THEN [kind |-> "BleakNotFoundError", advice |-> "", cause |-> e]
    ELSE IF IsBleakError(e) /\ AnyIn(DEVICE_MISSING_ERRORS, e)
    THEN [kind |-> "BleakNotFoundError", advice |-> DEVICE_MISSING_ADVICE, cause |-> e]
    ELSE [kind |-> "BleakConnectionError", advice |-> "", cause |-> e]

\* lines 349-361: the error _raise_if_needed raises for exc
TerminalError(e) ==
    IF e.type = "TimeoutError" \/ NOT_FOUND \in e.msg
    THEN [kind |-> "BleakNotFoundError", advice |-> "", cause |-> e]
    ELSE IF IsBleakError(e) /\ AnyIn(ABORT_ERRORS, e)
    THEN [kind |-> "BleakAbortedError", advice |-> ABORT_ADVICE, cause |-> e]
    ELSE IF IsBleakError(e) /\ AnyIn(DEVICE_MISSING_ERRORS, e)
    THEN [kind |-> "BleakNotFoundError", advice |-> DEVICE_MISSING_ADVICE, cause |-> e]
    ELSE [kind |-> "BleakConnectionError", advice |-> "", cause |-> e]

\* ble_device_has_changed comparing the addresses only
ble_device_has_changed_AddressOnly(original, new) ==
    original.address # new.address

\* lines 190-201
ble_device_has_changed(original, new) ==
    \/ original.address # new.address
    \/ /\ HasPath(original)
       /\ HasPath(new)
       /\ original.details.path # new.details.path

\* device_is_connected taking a device the store holds for a connected one
device_is_connected_AnyEntry(props, ok, dev) ==
    IF ~HasPath(dev) THEN FALSE
    ELSE IF ~ok THEN FALSE
    ELSE HasDevice(props, dev.details.path)

\* lines 304-314; a missing path or interface is a KeyError, swallowed
device_is_connected(props, ok, dev) ==
    IF ~HasPath(dev) THEN FALSE
    ELSE IF ~ok THEN FALSE
    ELSE IF ~HasDevice(props, dev.details.path) THEN FALSE
    ELSE props[dev.details.path][DEVICE_INTERFACE].Connected

\* CountFailure with a transient-coded transport error counted as a connect
\* error
CountFailure_CodesIgnored(e, t, c, tr) ==
    IF e.type = "TimeoutError" THEN [timeouts |-> t + 1, connect_errors |-> c, transient_errors |-> tr]
    ELSE IF e.type \in {"BrokenPipeError", "EOFError"}
    THEN [timeouts |-> t, connect_errors |-> c, transient_errors |-> tr + 1]
    ELSE [timeouts |-> t, connect_errors |-> c + 1, transient_errors |-> tr]

\* CountFailure with no counter for BrokenPipeError
CountFailure_PipeUncounted(e, t, c, tr) ==
    IF e.type = "TimeoutError" THEN [timeouts |-> t + 1, connect_errors |-> c, transient_errors |-> tr]
    ELSE IF e.type = "BrokenPipeError"
    THEN [timeouts |-> t, connect_errors |-> c, transient_errors |-> tr]
    ELSE IF e.type = "EOFError" \/ AnyIn(TRANSIENT_ERRORS, e)
    THEN [timeouts |-> t, connect_errors |-> c, transient_errors |-> tr + 1]
    ELSE [timeouts |-> t, connect_errors |-> c + 1, transient_errors |-> tr]

\* the counters after the except clause that catches e, lines 414-463
CountFailure(e, t, c, tr) ==
    IF e.type = "TimeoutError" THEN [timeouts |-> t + 1, connect_errors |-> c, transient_errors |-> tr]
    ELSE IF e.type \in {"BrokenPipeError", "EOFError"}
    THEN [timeouts |-> t, connect_errors |-> c, transient_errors |-> tr + 1]
    ELSE IF AnyIn(TRANSIENT_ERRORS, e)
    THEN [timeouts |-> t, connect_errors |-> c, transient_errors |-> tr + 1]
    ELSE [timeouts |-> t, connect_errors |-> c + 1, transient_errors |-> tr]

\* BacksOff with the sleep for EOFError alone
BacksOff_EofOnly(e) == e.type = "EOFError"

\* lines 456 and 464-474: the except clause sleeps BLEAK_DBUS_BACKOFF_TIME
BacksOff(e) == e.type = "EOFError" \/ e.type = "BleakDBusError"

\* the handles a caller or its ble_device_callback may supply: the device on
\* hci0 or hci1, the device known through something other than BlueZ (no
\* path), and another device
ConnectRssi == {<<-60>>}
ConnectPaths(a) == {Path(Digit(i), a) : i \in 0..1}
ConnectHandles ==
    {BLEDevice("AA:BB", [path |-> p], r) : p \in ConnectPaths("AA:BB"), r \in ConnectRssi}
    \cup {BLEDevice("AA:BB", NoDetails, r) : r \in ConnectRssi}
    \cup {BLEDevice("CC:DD", [path |-> Path("0", "CC:DD")], r) : r \in ConnectRssi}
\* the snapshots an attempt may find for the device of address a
ConnectSnapshots(a) ==
    UNION {[P -> {DeviceEntry(a, r, c) : r \in ConnectRssi, c \in BOOLEAN}] :
              P \in SUBSET ConnectPaths(a)}

\* the snapshots freshening may find; the Connected flag plays no part in it
FreshenSnapshots(a) ==
    UNION {[P -> {DeviceEntry(a, r, FALSE) : r \in ConnectRssi}] :
              P \in SUBSET ConnectPaths(a)}

\* client_class(device, **kwargs), lines 393-401
NewClient(dev, seeded) ==
    [address |-> dev.address, details |-> dev.details,
     cached_services |-> IF seeded THEN "supplied" ELSE "None",
     services |-> "None", is_connected |-> FALSE, seeded |-> seeded]

IdleResolver ==
    /\ properties = EmptySnapshot /\ manager_ok = TRUE
    /\ call = NoCall /\ ret = NoRet

\* the step read no snapshot
NoRead ==
    /\ properties' = EmptySnapshot /\ manager_ok' = TRUE
    /\ UNCHANGED <<call, ret>>

\* the step read the snapshot props (ok: the manager could be had)
Read(props, ok) ==
    /\ properties' = props /\ manager_ok' = ok
    /\ UNCHANGED <<call, ret>>

\* the GATT services of the device the client is for, as the vanish check
\* of connect may find them
ConnectServiceSnapshots(c) ==
    {EmptySnapshot} \cup
    (IF HasPath(c) THEN {ServicePath(c.details.path, "service0001") :> ServiceEntry}
     ELSE {})

\* lines 336-340 and 363
Init ==
    /\ IdleResolver
    /\ max_attempts \in 0..MaxAttemptsArg
    /\ cached_services \in BOOLEAN
    /\ has_callback \in BOOLEAN
    /\ client_class \in {"BleakClient", "BleakClientWithServiceCache"}
    /\ device \in ConnectHandles
    /\ timeouts = 0 /\ connect_errors = 0 /\ transient_errors = 0 /\ attempt = 0
    /\ can_use_cached_services = TRUE
    /\ create_client = TRUE
    /\ client = NoClient
    /\ pc = "loop" /\ stale_closed = FALSE /\ slept = FALSE
    /\ exc = NoExc /\ raised = NoRaise
    /\ callback_pending = FALSE
    /\ LinuxPlatform

\* Refreshed with the cache left usable when a fresher handle is adopted
Refreshed_KeepsReuse(dev, props, ok) ==
    LET original_device == device
        fresh == freshen_ble_device(props, ok, dev).device
        new_device == IF fresh # PyNone THEN fresh[1] ELSE dev
    IN [device |-> new_device,
        can_use_cached_services |-> can_use_cached_services,
        create_client |->
            IF ~create_client
            THEN ble_device_has_changed(original_device, new_device)
            ELSE create_client]

\* Refreshed with the cache given up whenever the snapshot cannot be read
Refreshed_FailureDisallows(dev, props, ok) ==
    LET original_device == device
        fresh == freshen_ble_device(props, ok, dev).device
        new_device == IF fresh # PyNone THEN fresh[1] ELSE dev
    IN [device |-> new_device,
        can_use_cached_services |->
            IF fresh # PyNone \/ ~ok THEN FALSE ELSE can_use_cached_services,
        create_client |->
            IF ~create_client
            THEN ble_device_has_changed(original_device, new_device)
            ELSE create_client]

\* freshen_ble_device and lines 376-380 for the handle dev of this attempt:
\* the handle to use, whether the cache may still be used, create_client
Refreshed(dev, props, ok) ==
    LET original_device == device
        fresh == freshen_ble_device(props, ok, dev).device
        new_device == IF fresh # PyNone THEN fresh[1] ELSE dev
    IN [device |-> new_device,
        can_use_cached_services |->
            IF fresh # PyNone THEN FALSE ELSE can_use_cached_services,
        create_client |->
            IF ~create_client
            THEN ble_device_has_changed(original_device, new_device)
            ELSE create_client]

\* lines 366-390: the attempt gets its handle (the callback's when there is
\* one, freshened when the resolver finds a better path)
BeginAttempt ==
    /\ pc = "loop"
    /\ \E dev \in (IF has_callback THEN ConnectHandles ELSE {device}),
          ok \in BOOLEAN :
        \E props \in (IF ok THEN FreshenSnapshots(dev.address) ELSE {EmptySnapshot}) :
          LET r == Refreshed(dev, props, ok) IN
            /\ device' = r.device
            /\ can_use_cached_services' = r.can_use_cached_services
            /\ create_client' = r.create_client
            /\ Read(props, ok)
    /\ attempt' = attempt + 1
    /\ pc' = "client"
    /\ UNCHANGED <<max_attempts, cached_services, has_callback, client_class,
                   timeouts, connect_errors, transient_errors, client,
                   stale_closed, slept, exc, raised, callback_pending>>
    /\ UNCHANGED platform_vars

\* line 373: ble_device_callback() raises; nothing catches it
RefreshRaises ==
    /\ pc = "loop"
    /\ has_callback
    /\ attempt' = attempt + 1
    /\ pc' = "propagated"
    /\ raised' = [kind |-> "CallbackError", step |-> "ble_device_callback"]
    /\ UNCHANGED <<max_attempts, cached_services, has_callback, client_class,
                   timeouts, connect_errors, transient_errors,
                   can_use_cached_services, create_client, device, client,
                   stale_closed, slept, exc>>
    /\ NoRead
    /\ UNCHANGED callback_pending
    /\ UNCHANGED platform_vars

\* lines 392-402: a client is built for the handle when create_client is set
GetClient ==
    /\ pc = "client"
    /\ client' =
         IF create_client
         THEN NewClient(device,
                        can_use_cached_services /\ cached_services
                        /\ client_class = "BleakClientWithServiceCache")
         ELSE client
    /\ create_client' = FALSE
    /\ pc' = "stale"
    /\ UNCHANGED <<max_attempts, cached_services, has_callback, client_class,
                   timeouts, connect_errors, transient_errors, attempt,
                   can_use_cached_services, device,
                   stale_closed, slept, exc, raised>>
    /\ NoRead
    /\ UNCHANGED callback_pending
    /\ UNCHANGED platform_vars

\* close_stale_connections(device), lines 317-322 (IS_LINUX): the caller
\* holding the handle calls it instead of establish_connection; a device the
\* store reports connected is disconnected, and disconnect_device may raise
CloseStaleConnections ==
    /\ pc = "loop" /\ attempt = 0
    /\ \E ok \in BOOLEAN :
        \E props \in (IF ok THEN ConnectSnapshots(device.address) ELSE {EmptySnapshot}) :
          /\ stale_closed' = device_is_connected(props, ok, device)
          /\ Read(props, ok)
    /\ \/ pc' = "closed" /\ raised' = raised
       \/ /\ stale_closed'
          /\ pc' = "propagated"
          /\ raised' = [kind |-> "DisconnectError", step |-> "disconnect_device"]
    /\ UNCHANGED <<max_attempts, cached_services, has_callback, client_class,
                   timeouts, connect_errors, transient_errors, attempt,
                   can_use_cached_services, create_client, device, client,
                   slept, exc, callback_pending>>
    /\ UNCHANGED platform_vars

\* line 393: client_class(device, **kwargs) raises; nothing catches it
ConstructRaises ==
    /\ pc = "client"
    /\ create_client
    /\ pc' = "propagated"
    /\ raised' = [kind |-> "ConstructorError", step |-> "client_class"]
    /\ UNCHANGED <<max_attempts, cached_services, has_callback, client_class,
                   timeouts, connect_errors, transient_errors, attempt,
                   can_use_cached_services, create_client, device, client,
                   stale_closed, slept, exc>>
    /\ NoRead
    /\ UNCHANGED callback_pending
    /\ UNCHANGED platform_vars

\* lines 404-406 (IS_LINUX): a device the store reports connected is
\* disconnected first
CloseStale ==
    /\ pc = "stale"
    /\ \E ok \in BOOLEAN :
        \E props \in (IF ok THEN ConnectSnapshots(device.address) ELSE {EmptySnapshot}) :
          /\ stale_closed' = device_is_connected(props, ok, device)
          /\ Read(props, ok)
    /\ pc' = "connect"
    /\ UNCHANGED <<max_attempts, cached_services, has_callback, client_class,
                   timeouts, connect_errors, transient_errors, attempt,
                   can_use_cached_services, create_client, device, client,
                   slept, exc, raised, callback_pending>>
    /\ UNCHANGED platform_vars

\* line 406: disconnect_device(device) raises; nothing catches it
DisconnectRaises ==
    /\ pc = "stale"
    /\ \E props \in ConnectSnapshots(device.address) :
          /\ device_is_connected(props, TRUE, device)
          /\ Read(props, TRUE)
    /\ stale_closed' = TRUE
    /\ pc' = "propagated"
    /\ raised' = [kind |-> "DisconnectError", step |-> "disconnect_device"]
    /\ UNCHANGED <<max_attempts, cached_services, has_callback, client_class,
                   timeouts, connect_errors, transient_errors, attempt,
                   can_use_cached_services, create_client, device, client,
                   slept, exc, callback_pending>>
    /\ UNCHANGED platform_vars

\* the snapshots the vanish check of client.connect may read: it reads one
\* only when the client is a BleakClientWithServiceCache that has a cache
\* (line 134)
ChecksVanished(c) ==
    /\ client_class = "BleakClientWithServiceCache"
    /\ _has_service_cache(c, BLEAK_HAS_SERVICE_CACHE_SUPPORT, IS_LINUX)
VanishReads(c) ==
    IF ChecksVanished(c)
    THEN {<<props, TRUE>> : props \in ConnectServiceSnapshots(c)}
         \cup {<<EmptySnapshot, FALSE>>}
    ELSE {<<EmptySnapshot, TRUE>>}

\* lines 134-136 for the client in use: what client.connect does before the
\* underlying connect (nothing for a plain BleakClient)
ConnectEntry(c, props, ok) ==
    IF client_class = "BleakClientWithServiceCache"
    THEN ClearVanished(c, props, ok, BLEAK_HAS_SERVICE_CACHE_SUPPORT, IS_LINUX)
    ELSE c

\* lines 138-149 for the client in use: the underlying connect returned True
ConnectExit(c, services) ==
    IF client_class = "BleakClientWithServiceCache"
    THEN AfterConnect(c, TRUE, services, cached_services,
                      BLEAK_HAS_SERVICE_CACHE_SUPPORT)
    ELSE [c EXCEPT !.is_connected = TRUE, !.services = services]

\* lines 408-413 and 485-493: client.connect returns
ConnectSucceeds ==
    /\ pc = "connect"
    /\ \E rd \in VanishReads(client) :
        LET c0 == ConnectEntry(client, rd[1], rd[2]) IN
          /\ \E services \in
                 (IF client_class = "BleakClientWithServiceCache"
                  THEN ServicesAfterConnect(c0, BLEAK_HAS_SERVICE_CACHE_SUPPORT, IS_LINUX)
                  ELSE {"resolved"}) :
               client' = ConnectExit(c0, services)
          /\ Read(rd[1], rd[2])
    /\ pc' = "returned"
    /\ stale_closed' = FALSE
    /\ UNCHANGED <<max_attempts, cached_services, has_callback, client_class,
                   timeouts, connect_errors, transient_errors, attempt,
                   can_use_cached_services, create_client, device,
                   slept, exc, raised, callback_pending>>
    /\ UNCHANGED platform_vars

\* where the loop stands after a caught failure, lines 484 and 494-496:
\* with budget left it falls through to the yield, else the error leaves
AfterFailure_NoYield(budget_left) == IF budget_left THEN "loop" ELSE "raised"

AfterFailure(budget_left) == IF budget_left THEN "yield" ELSE "raised"

\* lines 408-484: client.connect raises e, an except clause counts it and
\* _raise_if_needed decides
ConnectFails ==
    /\ pc = "connect"
    /\ \E e \in ConnectExceptions :
        /\ Caught(e)
        /\ LET n == CountFailure(e, timeouts, connect_errors, transient_errors)
               left == BudgetLeft(n.timeouts, n.connect_errors,
                                  n.transient_errors, max_attempts)
           IN
            /\ timeouts' = n.timeouts
            /\ connect_errors' = n.connect_errors
            /\ transient_errors' = n.transient_errors
            /\ slept' = BacksOff(e)
            /\ exc' = e
            /\ pc' = AfterFailure(left)
            /\ raised' = IF left THEN raised ELSE TerminalError(e)
    /\ \E rd \in VanishReads(client) :
          /\ client' = ConnectEntry(client, rd[1], rd[2])
          /\ Read(rd[1], rd[2])
    /\ callback_pending' \in (IF pc' = "yield" THEN BOOLEAN ELSE {FALSE})
    /\ stale_closed' = FALSE
    /\ UNCHANGED <<max_attempts, cached_services, has_callback, client_class,
                   attempt, can_use_cached_services, create_client, device>>
    /\ UNCHANGED platform_vars

\* lines 408-413: client.connect raises an exception no except clause names
ConnectRaisesOther ==
    /\ pc = "connect"
    /\ \E e \in ConnectExceptions :
        /\ ~Caught(e)
        /\ exc' = e
        /\ raised' = [kind |-> e.type, step |-> "connect"]
    /\ \E rd \in VanishReads(client) :
          /\ client' = ConnectEntry(client, rd[1], rd[2])
          /\ Read(rd[1], rd[2])
    /\ pc' = "propagated"
    /\ stale_closed' = FALSE
    /\ UNCHANGED <<max_attempts, cached_services, has_callback, client_class,
                   timeouts, connect_errors, transient_errors, attempt,
                   can_use_cached_services, create_client, device,
                   slept, callback_pending>>
    /\ UNCHANGED platform_vars

\* line 496: await asyncio.sleep(0) lets the event loop run what is
\* scheduled, the pending disconnect notification included; then the next
\* attempt
Yield ==
    /\ pc = "yield"
    /\ pc' = "loop"
    /\ exc' = NoExc
    /\ slept' = FALSE
    /\ callback_pending' = FALSE
    /\ NoRead
    /\ UNCHANGED <<max_attempts, cached_services, has_callback, client_class,
                   timeouts, connect_errors, transient_errors, attempt,
                   can_use_cached_services, create_client, device, client,
                   stale_closed, raised>>
    /\ UNCHANGED platform_vars

Next ==
    \/ BeginAttempt
    \/ RefreshRaises
    \/ GetClient
    \/ ConstructRaises
    \/ CloseStale
    \/ DisconnectRaises
    \/ ConnectSucceeds
    \/ ConnectFails
    \/ ConnectRaisesOther
    \/ Yield
    \/ CloseStaleConnections

Spec == Init /\ [][Next]_vars

(***************************************************************************)
(* ClientSpec: the methods of a BleakClientWithServiceCache object         *)
(*                                                                         *)
(* call records the method called, the client as it was (self) and, for    *)
(* connect, as it stood when the underlying connect was entered (entered); *)
(* ret records the underlying operations the method invoked, in order, and *)
(* what it returned; exc is what the underlying operation raised and       *)
(* raised what left the method.                                            *)
(***************************************************************************)
ClientPath == Path("0", "AA:BB")
\* the entries of a snapshot by the kind of their path: the adapter, the
\* device, a GATT service of the device, a GATT service of another device
ClientStorePaths ==
    {AdapterPath(ClientPath), ClientPath,
     ServicePath(ClientPath, "service0001"),
     ServicePath(Path("0", "CC:DD"), "service0001")}
ClientStoreEntry(p) ==
    IF "service" \in DOMAIN p THEN ServiceEntry
    ELSE IF "dev" \in DOMAIN p THEN DeviceEntry(p.dev, <<-60>>, TRUE)
    ELSE "org.bluez.Adapter1" :> [Address |-> "00:00"]
ClientSnapshots ==
    {[p \in P |-> ClientStoreEntry(p)] : P \in SUBSET ClientStorePaths}

ClientObjects ==
    {[address |-> "AA:BB", details |-> d, cached_services |-> cs,
      services |-> "None", is_connected |-> FALSE, seeded |-> FALSE] :
        d \in {[path |-> ClientPath], NoDetails}, cs \in {"None", "supplied"}}

\* what the underlying connect, get_services and disconnect may raise;
\* CancelledError is a BaseException and no Exception
ClientExceptions ==
    {Exc("BleakError", {}), Exc("EOFError", {}), Exc("CancelledError", {})}
\* the `except Exception` of line 165 catches e
IsException(e) == e.type # "CancelledError"

NoMethodRet == [calls |-> <<>>, returned |-> "nothing"]
\* the exception e, raised by the underlying operation op, leaves the method
Leaves(e, op) == [type |-> e.type, msg |-> e.msg, from |-> op]

ClientInit ==
    /\ IS_LINUX \in BOOLEAN
    /\ BLEAK_HAS_SERVICE_CACHE_SUPPORT \in BOOLEAN
    /\ client \in ClientObjects
    /\ manager_ok \in BOOLEAN
    /\ properties \in (IF manager_ok THEN ClientSnapshots ELSE {EmptySnapshot})
    /\ call = NoCall /\ ret = NoMethodRet
    /\ exc = NoExc /\ raised = NoRaise
    /\ max_attempts = 0 /\ cached_services = FALSE /\ has_callback = FALSE
    /\ client_class = "BleakClientWithServiceCache"
    /\ timeouts = 0 /\ connect_errors = 0 /\ transient_errors = 0 /\ attempt = 0
    /\ can_use_cached_services = TRUE /\ create_client = FALSE
    /\ device = BLEDevice("AA:BB", NoDetails, PyNone)
    /\ pc = "idle" /\ stale_closed = FALSE /\ slept = FALSE
    /\ callback_pending = FALSE

ClientFrame ==
    /\ UNCHANGED <<properties, manager_ok>>
    /\ UNCHANGED <<max_attempts, cached_services, has_callback, client_class,
                   timeouts, connect_errors, transient_errors, attempt,
                   can_use_cached_services, create_client, device,
                   pc, stale_closed, slept, callback_pending>>
    /\ UNCHANGED platform_vars

\* set_cached_services(services), lines 185-187
SetCachedServices ==
    /\ \E services \in {"None", "supplied"} :
         /\ client' = set_cached_services(client, services)
         /\ call' = [fn |-> "set_cached_services", self |-> client]
    /\ ret' = NoMethodRet
    /\ exc' = NoExc /\ raised' = NoRaise
    /\ ClientFrame

\* connect(dangerous_use_bleak_cache=...), lines 125-149, on a client that
\* is not connected
ClientConnect ==
    /\ ~client.is_connected
    /\ \E dangerous_use_bleak_cache \in BOOLEAN :
        LET c0 == ClearVanished(client, properties, manager_ok,
                                BLEAK_HAS_SERVICE_CACHE_SUPPORT, IS_LINUX)
        IN
          /\ call' = [fn |-> "connect", self |-> client, entered |-> c0,
                      dangerous_use_bleak_cache |-> dangerous_use_bleak_cache]
          /\ \/ \E services \in ServicesAfterConnect(
                                    c0, BLEAK_HAS_SERVICE_CACHE_SUPPORT, IS_LINUX) :
                  /\ client' = AfterConnect(c0, TRUE, services,
                                            dangerous_use_bleak_cache,
                                            BLEAK_HAS_SERVICE_CACHE_SUPPORT)
                  /\ ret' = [calls |-> <<"super.connect">>, returned |-> "True"]
                  /\ exc' = NoExc /\ raised' = NoRaise
             \/ /\ client' = AfterConnect(c0, FALSE, c0.services,
                                          dangerous_use_bleak_cache,
                                          BLEAK_HAS_SERVICE_CACHE_SUPPORT)
                /\ ret' = [calls |-> <<"super.connect">>, returned |-> "False"]
                /\ exc' = NoExc /\ raised' = NoRaise
             \/ \E e \in ClientExceptions :
                  /\ client' = c0
                  /\ ret' = [calls |-> <<"super.connect">>, returned |-> "nothing"]
                  /\ exc' = e /\ raised' = Leaves(e, "super.connect")
    /\ ClientFrame

\* get_services(), lines 151-170.  The underlying get_services returns only
\* on a connected client; what a failed disconnect leaves of the connection
\* is not known
ClientGetServices ==
    /\ call' = [fn |-> "get_services", self |-> client]
    /\ IF _has_service_cache(client, BLEAK_HAS_SERVICE_CACHE_SUPPORT, IS_LINUX)
       THEN /\ client' = [client EXCEPT !.services = client.cached_services]
            /\ ret' = [calls |-> <<>>, returned |-> client.cached_services]
            /\ exc' = NoExc /\ raised' = NoRaise
       ELSE \/ /\ client.is_connected
               /\ client' = [client EXCEPT !.services = "resolved"]
               /\ ret' = [calls |-> <<"super.get_services">>, returned |-> "resolved"]
               /\ exc' = NoExc /\ raised' = NoRaise
            \/ \E e \in ClientExceptions :
                 /\ exc' = e
                 /\ IF IsException(e)
                    THEN /\ ret' = [calls |-> <<"super.get_services", "disconnect">>,
                                    returned |-> "nothing"]
                         /\ \/ /\ client' = [client EXCEPT !.is_connected = FALSE]
                               /\ raised' = Leaves(e, "super.get_services")
                            \/ \E e2 \in ClientExceptions, left \in {client.is_connected, FALSE} :
                                 /\ client' = [client EXCEPT !.is_connected = left]
                                 /\ raised' = Leaves(e2, "disconnect")
                    ELSE /\ ret' = [calls |-> <<"super.get_services">>,
                                    returned |-> "nothing"]
                         /\ client' = client
                         /\ raised' = Leaves(e, "super.get_services")
    /\ ClientFrame

ClientNext ==
    \/ SetCachedServices
    \/ ClientConnect
    \/ ClientGetServices

ClientSpec == ClientInit /\ [][ClientNext]_vars

(***************************************************************************)
(* Claims about establish_connection (checked under Spec)                  *)
(***************************************************************************)
Running == pc \in {"loop", "client", "stale", "connect"}
AttemptBudgetReached == timeouts + connect_errors >= max_attempts
TransientBudgetReached == transient_errors >= 9
ClassifiedClasses ==
    {"TimeoutError", "BrokenPipeError", "EOFError", "BleakError",
     "BleakDBusError", "AttributeError"}

\* C1: after a failed connect attempt the call has raised a terminal error
\* exactly when timeouts + connect_errors >= max_attempts or
\* transient_errors >= 9, and otherwise goes on (it stands at the yield that
\* precedes the next attempt); for max_attempts >= 1 no attempt starts with a
\* budget already reached, and the failure that raises is the one that
\* reaches a budget.
C1_BudgetDecides ==
    /\ pc = "raised" => (AttemptBudgetReached \/ TransientBudgetReached)
    /\ pc = "yield" => ~(AttemptBudgetReached \/ TransientBudgetReached)
    /\ pc \in {"raised", "yield"} => exc.type \in ClassifiedClasses
    /\ (max_attempts >= 1 /\ Running)
          => ~(AttemptBudgetReached \/ TransientBudgetReached)
    /\ (max_attempts >= 1 /\ pc = "raised")
          => (timeouts + connect_errors = max_attempts \/ transient_errors = 9)

\* the ninth transient failure raised while one attempt of three was left
C1_Witness ==
    /\ pc = "raised"
    /\ max_attempts = 3
    /\ timeouts + connect_errors = 2
    /\ transient_errors = 9

OnlyTimeouts == connect_errors = 0 /\ transient_errors = 0

\* C2 (as amended): when every failure is a timeout and max_attempts >= 1,
\* a success after k < max_attempts timeouts returns the connected client at
\* attempt k + 1 with timeouts = k, and without a success BleakNotFoundError
\* is raised at attempt max_attempts, where timeouts = max_attempts; for
\* max_attempts < 1 the first timeout raises it.
C2_TimeoutsThenSuccessOrNotFound ==
    OnlyTimeouts =>
        /\ pc = "returned" =>
              /\ client.is_connected
              /\ attempt = timeouts + 1
              /\ (max_attempts >= 1 => timeouts < max_attempts)
        /\ pc = "raised" =>
              /\ raised.kind = "BleakNotFoundError"
              /\ attempt = timeouts
              /\ (max_attempts >= 1 => timeouts + connect_errors = max_attempts)
              /\ (max_attempts < 1 => timeouts = 1)
        /\ (max_attempts >= 1 /\ Running) => timeouts < max_attempts

\* C2 as claimed: without a success BleakNotFoundError is raised at the
\* attempt where timeouts + connect_errors = max_attempts.
C2_AsClaimed ==
    (OnlyTimeouts /\ pc = "raised") =>
        /\ raised.kind = "BleakNotFoundError"
        /\ timeouts + connect_errors = max_attempts

\* two timeouts, then the third attempt connects
C2_Witness ==
    /\ pc = "returned"
    /\ OnlyTimeouts
    /\ max_attempts = 3
    /\ timeouts = 2
    /\ attempt = 3

TerminalKinds == {"BleakNotFoundError", "BleakAbortedError", "BleakConnectionError"}

\* C3 (as amended): a call ends by returning the connected client, by raising
\* one of the three terminal kinds once a budget is reached, or by letting
\* through an exception that no except clause names: one raised by the
\* handle callback, the client constructor or the stale disconnect, or one
\* that connect raised outside TimeoutError, BrokenPipeError, EOFError,
\* AttributeError and BleakError.  A connect exception of those five
\* families below the budget is counted and the loop goes on.
C3_EndsOfACall ==
    /\ pc = "returned" => (client.is_connected /\ raised = NoRaise)
    /\ pc = "raised" =>
          /\ raised.kind \in TerminalKinds
          /\ exc.type \in ClassifiedClasses
          /\ (AttemptBudgetReached \/ TransientBudgetReached)
    /\ pc = "propagated" =>
          \/ raised.step \in {"ble_device_callback", "client_class", "disconnect_device"}
          \/ raised.step = "connect" /\ exc.type \notin ClassifiedClasses
    /\ pc = "yield" =>
          /\ exc.type \in ClassifiedClasses
          /\ raised = NoRaise
          /\ timeouts + connect_errors + transient_errors = attempt
    /\ Running => (raised = NoRaise /\ exc = NoExc)

\* C3 as claimed: nothing but a connected client or one of the three
\* terminal kinds reaches the caller.
C3_AsClaimed ==
    /\ pc # "propagated"
    /\ raised # NoRaise => raised.kind \in TerminalKinds

\* after recovered failures, connect raised an exception of no caught family
C3_Witness ==
    /\ pc = "propagated"
    /\ raised.step = "connect"
    /\ timeouts >= 1 /\ connect_errors >= 1 /\ transient_errors >= 1

AbortCodes == {"le-connection-abort-by-local", "br-connection-canceled"}
MissingCodes == {"org.freedesktop.DBus.Error.UnknownObject"}
TransportError(e) == e.type \in {"BleakError", "BleakDBusError"}

\* C4 (as amended): the terminal error is decided by the last failure alone:
\* a timeout or a message containing "not found" gives BleakNotFoundError;
\* otherwise a transport error (BleakError) whose message holds an abort
\* code gives BleakAbortedError with the interference hint; otherwise a
\* transport error whose message holds the device-missing code gives
\* BleakNotFoundError with the restart-scanner hint; everything else,
\* attribute errors with such codes included, gives BleakConnectionError.
C4_KindByLastFailure ==
    pc = "raised" =>
        /\ raised.cause = exc
        /\ IF exc.type = "TimeoutError" \/ "not found" \in exc.msg
           THEN raised.kind = "BleakNotFoundError" /\ raised.advice = ""
           ELSE IF TransportError(exc) /\ exc.msg \cap AbortCodes # {}
           THEN raised.kind = "BleakAbortedError" /\ raised.advice = ABORT_ADVICE
           ELSE IF TransportError(exc) /\ exc.msg \cap MissingCodes # {}
           THEN raised.kind = "BleakNotFoundError"
                /\ raised.advice = DEVICE_MISSING_ADVICE
           ELSE raised.kind = "BleakConnectionError" /\ raised.advice = ""

\* C4 as claimed: the abort and device-missing rules hold for every failure
\* whose message matches, attribute errors included.
C4_AsClaimed ==
    pc = "raised" =>
        IF exc.type = "TimeoutError" \/ "not found" \in exc.msg
        THEN raised.kind = "BleakNotFoundError" /\ raised.advice = ""
        ELSE IF exc.msg \cap AbortCodes # {}
        THEN raised.kind = "BleakAbortedError" /\ raised.advice = ABORT_ADVICE
        ELSE IF exc.msg \cap MissingCodes # {}
        THEN raised.kind = "BleakNotFoundError"
             /\ raised.advice = DEVICE_MISSING_ADVICE
        ELSE raised.kind = "BleakConnectionError" /\ raised.advice = ""

\* a message with "not found" and an abort code ended as BleakNotFoundError
\* after earlier failures of other kinds
C4_Witness ==
    /\ pc = "raised"
    /\ exc = [type |-> "BleakError",
              msg |-> {"not found", "le-connection-abort-by-local"}]
    /\ raised.kind = "BleakNotFoundError"
    /\ timeouts >= 1 /\ transient_errors >= 2

TransientCategory(e) ==
    \/ e.type \in {"BrokenPipeError", "EOFError"}
    \/ /\ e.type \in {"BleakError", "BleakDBusError", "AttributeError"}
       /\ e.msg \cap {"le-connection-abort-by-local", "br-connection-canceled"} # {}

\* the step of a connect that fails with a caught exception
FailedConnect == pc = "connect" /\ pc' \in {"yield", "raised"}

\* C5: a failure of a transient category (BrokenPipeError, EOFError, or a
\* transport/attribute error with a transient code) adds one to
\* transient_errors and leaves timeouts and connect_errors alone, and every
\* other failure leaves transient_errors alone; while timeouts +
\* connect_errors < max_attempts the call goes on after each of the first
\* eight transient failures and raises at the ninth.
C5_TransientCountedApart ==
    /\ [][FailedConnect =>
            IF TransientCategory(exc')
            THEN /\ transient_errors' = transient_errors + 1
                 /\ timeouts' = timeouts
                 /\ connect_errors' = connect_errors
            ELSE /\ transient_errors' = transient_errors
                 /\ timeouts' + connect_errors' = timeouts + connect_errors + 1]_vars
    /\ [](timeouts + connect_errors < max_attempts =>
            /\ pc = "yield" => transient_errors <= 8
            /\ pc = "raised" => transient_errors = 9
            /\ Running => transient_errors <= 8)

\* nine transient failures and nothing else: the ninth, an attribute error
\* with a transient code, raised
C5_Witness ==
    /\ pc = "raised"
    /\ max_attempts >= 1
    /\ timeouts + connect_errors = 0
    /\ transient_errors = 9
    /\ attempt = 9
    /\ exc.type = "AttributeError"

CarriesPath(d) == "path" \in DOMAIN d.details
\* the comparison the loop makes between the handle of the previous attempt
\* and the handle of this one
Differs(old, new) ==
    \/ old.address # new.address
    \/ CarriesPath(old) /\ CarriesPath(new) /\ old.details.path # new.details.path

\* C6 (as amended): a client is constructed in the first attempt and
\* afterwards in exactly those attempts whose handle differs from the handle
\* of the previous attempt in address, or in backend path when both carry
\* one; in every other attempt the client is kept.  At every connect call
\* the client in use was constructed for the address of the current handle,
\* and for its backend path too when no handle callback is given.
C6_ClientFollowsHandle ==
    /\ [][(pc = "loop" /\ pc' = "client")
            => (create_client' <=> (attempt = 0 \/ Differs(device, device')))]_vars
    /\ [][(pc = "client" /\ pc' = "stale")
            => IF create_client
               THEN /\ client'.address = device.address
                    /\ client'.details = device.details
                    /\ ~client'.is_connected
               ELSE client' = client]_vars
    /\ [](pc \in {"stale", "connect"} =>
            /\ client # NoClient
            /\ client.address = device.address
            /\ ~has_callback => client.details = device.details)

\* C6 as claimed: at every connect call the client in use was constructed
\* for a handle with the address and the backend path of the current handle.
C6_AsClaimed ==
    pc = "connect" =>
        /\ client.address = device.address
        /\ client.details = device.details

\* with no callback, a later attempt adopted the fresher hci1 handle and a
\* client was constructed for it
C6_Witness ==
    /\ pc = "connect"
    /\ ~has_callback
    /\ attempt >= 2
    /\ ~can_use_cached_services
    /\ device.details = [path |-> [hci |-> "1", dev |-> "AA:BB"]]
    /\ client.details = device.details

ServiceCacheClient == client_class = "BleakClientWithServiceCache"
\* the vanish check of the returning connect read the store and found a
\* GATT service entry at or below the path of the client's device
C12_Registered ==
    /\ manager_ok
    /\ "path" \in DOMAIN client.details
    /\ \E p \in DOMAIN properties :
         /\ "org.bluez.GattService1" \in DOMAIN properties[p]
         /\ p.hci = client.details.path.hci /\ p.dev = client.details.path.dev

\* C12 (as amended): where the client's own cache is active (Linux, a bleak
\* without native cache support), the BleakClientWithServiceCache that is
\* returned holds the supplied cache when it was seeded with it and the
\* services had not vanished; holds the services of the new connection when
\* no cache was supplied; and holds no cache when one was supplied but the
\* client was not seeded or the cache was dropped as vanished.
C12_CacheOfReturnedClient ==
    (pc = "returned" /\ ServiceCacheClient) =>
        /\ client.is_connected
        /\ client.services # "None"
        /\ client.cached_services =
              IF ~cached_services THEN "resolved"
              ELSE IF client.seeded /\ C12_Registered THEN "supplied"
              ELSE "None"
        /\ client.seeded => cached_services

\* C12 as claimed: the returned client holds the supplied cache when one was
\* supplied, no fresher handle was adopted and the services had not vanished,
\* and the services of the new connection in every other case.
C12_AsClaimed ==
    (pc = "returned" /\ ServiceCacheClient) =>
        client.cached_services =
            IF cached_services /\ can_use_cached_services /\ C12_Registered
            THEN "supplied"
            ELSE "resolved"

\* a cache was supplied, a fresher handle was adopted on the way, and the
\* client returned holds no cache
C12_Witness ==
    /\ pc = "returned" /\ ServiceCacheClient
    /\ cached_services
    /\ ~can_use_cached_services
    /\ ~client.seeded
    /\ client.cached_services = "None"
    /\ attempt >= 2

\* C13 (as amended): a failed attempt sleeps BLEAK_DBUS_BACKOFF_TIME exactly
\* when the failure is an EOFError or a BleakDBusError, whatever the message
\* of the BleakDBusError and whether or not the failure ends the call;
\* timeouts, BrokenPipeError and every other transport or attribute error
\* sleep nothing.
C13_CooldownByClass ==
    pc \in {"yield", "raised"} =>
        (slept <=> exc.type \in {"EOFError", "BleakDBusError"})

\* C13 as claimed: the sleep is made exactly for EOFError and for a
\* BleakDBusError with a transient code, so no failure that adds to
\* connect_errors sleeps.
C13_AsClaimed ==
    pc \in {"yield", "raised"} =>
        (slept <=>
            \/ exc.type = "EOFError"
            \/ /\ exc.type = "BleakDBusError"
               /\ exc.msg \cap {"le-connection-abort-by-local",
                                "br-connection-canceled"} # {})

\* a BleakDBusError with no transient code was counted as a connect error
\* and slept, and the loop goes on
C13_Witness ==
    /\ pc = "yield"
    /\ slept
    /\ exc = [type |-> "BleakDBusError",
              msg |-> {"org.freedesktop.DBus.Error.UnknownObject"}]
    /\ connect_errors >= 1

\* C14: a failure that exhausts the budget raises the terminal error without
\* the cooldown sleep; the sleep is made only when the loop goes on.
C14_NoSleepBeforeRaise ==
    (pc = "raised" /\ max_attempts >= 1) => ~slept

C16_NoSeedAfterFreshening ==
    [][/\ ~can_use_cached_services => ~can_use_cached_services'
       /\ (pc = "loop" /\ pc' = "client" /\ ~has_callback /\ device' # device)
              => ~can_use_cached_services'
       /\ (pc = "client" /\ pc' = "stale" /\ create_client
             /\ ~can_use_cached_services)
              => ~client'.seeded
       /\ (pc = "connect" /\ ~has_callback /\ ~can_use_cached_services)
              => ~client.seeded
      ]_vars

\* C16 as claimed: whatever the callback returns, no connect call made after
\* the resolver returned a fresher handle uses a client seeded with the
\* supplied cache.
C16_AsClaimed ==
    (pc = "connect" /\ ~can_use_cached_services) => ~client.seeded

\* with a cache supplied and no callback, a later attempt connects, after
\* an earlier failure and a freshening, with a client that is not seeded
C16_Witness ==
    /\ pc = "connect"
    /\ cached_services /\ ServiceCacheClient
    /\ ~has_callback
    /\ ~can_use_cached_services
    /\ attempt >= 2
    /\ timeouts >= 1
    /\ ~client.seeded
    /\ client.details = device.details

\* the store that was read holds the handle's path with a Device1 record
\* whose Connected is true
C17_ReportedConnected ==
    /\ manager_ok
    /\ "path" \in DOMAIN device.details
    /\ device.details.path \in DOMAIN properties
    /\ "org.bluez.Device1" \in DOMAIN properties[device.details.path]
    /\ properties[device.details.path]["org.bluez.Device1"].Connected

\* C17: in every attempt, before its connect call, and in
\* close_stale_connections, disconnect_device is called for the handle if and
\* only if the store reports the handle's path as Connected; an unreadable
\* store, a missing path and a handle without a backend path all count as
\* not connected.
C17_DisconnectIffConnected ==
    (\/ pc \in {"connect", "closed"}
     \/ (pc = "propagated" /\ raised.step = "disconnect_device"))
        => (stale_closed <=> C17_ReportedConnected)

\* a later attempt found the device connected in the store and disconnected
\* it before its connect call
C17_Witness ==
    /\ pc = "connect"
    /\ attempt >= 2
    /\ stale_closed
    /\ C17_ReportedConnected

\* C18: when the snapshot cannot be read, get_bluez_device,
\* freshen_ble_device and get_device return None and raise nothing, and the
\* attempt of establish_connection goes on with the handle it had (the
\* callback's when there is one): whether the cache may be reused and the
\* timeout, connect-error and transient-error counters are as before, the
\* attempt counter has made its one step, and nothing is raised.
C18_ResolverFailureSwallowed ==
    [][(pc = "loop" /\ pc' = "client" /\ ~manager_ok') =>
          /\ \A dev \in ConnectHandles, props \in FreshenSnapshots("AA:BB") :
                /\ freshen_ble_device(props, FALSE, dev).device = <<>>
                /\ get_device(props, FALSE, dev.address).device = <<>>
                /\ "path" \in DOMAIN dev.details =>
                     get_bluez_device(props, FALSE, dev.details.path,
                                      dev.rssi).device = <<>>
          /\ ~has_callback => device' = device
          /\ can_use_cached_services' = can_use_cached_services
          /\ create_client' = (create_client \/ ble_device_has_changed(device, device'))
          /\ attempt' = attempt + 1
          /\ timeouts' = timeouts
          /\ connect_errors' = connect_errors
          /\ transient_errors' = transient_errors
          /\ raised' = [kind |-> "none"]
      ]_vars

\* a later attempt could not read the snapshot and goes on to its client
\* with the handle it had and the supplied cache still usable
C18_Witness ==
    /\ pc = "client"
    /\ ~manager_ok
    /\ attempt >= 2
    /\ timeouts >= 1
    /\ cached_services
    /\ can_use_cached_services
    /\ "path" \in DOMAIN device.details
    /\ ~create_client
    /\ raised = [kind |-> "none"]

\* the failures counted so far
C20_Failures == timeouts + connect_errors + transient_errors

\* C20: for max_attempts >= 1, every failed attempt that an except clause
\* catches adds one to exactly one of the three counters, so the call has
\* returned or raised by its attempt number
\* max_attempts + MAX_TRANSIENT_ERRORS - 1 at the latest.
C20_BoundedAttempts ==
    max_attempts >= 1 =>
        /\ attempt <= max_attempts + MAX_TRANSIENT_ERRORS - 1
        /\ pc \in {"loop", "yield", "raised"} => C20_Failures = attempt
        /\ pc \in {"client", "stale", "connect", "returned"}
              => C20_Failures = attempt - 1
        /\ pc \in {"loop", "yield", "client", "stale", "connect"}
              => /\ timeouts + connect_errors < max_attempts
                 /\ transient_errors < MAX_TRANSIENT_ERRORS

\* the call used every attempt it can get: max_attempts - 1 counted as
\* timeouts or connect errors, MAX_TRANSIENT_ERRORS - 1 as transient, and the
\* last one raised the terminal error
C20_Witness ==
    /\ pc = "raised"
    /\ max_attempts >= 2
    /\ attempt = max_attempts + MAX_TRANSIENT_ERRORS - 1
    /\ C20_Failures = attempt
    /\ timeouts >= 1 /\ connect_errors >= 1

(***************************************************************************)
(* Claims about the resolver (checked under ResolverSpec)                  *)
(***************************************************************************)
Called == call # NoCall
InPath == call.device.details.path
InRssi == call.device.rssi
RssiAt(p) == properties[p][DEVICE_INTERFACE].RSSI
\* a strength is known when it is a number other than 0 and the sentinel:
\* the code reads None, 0 and -1000 alike as "no strength"
StrengthKnown(r) == r # PyNone /\ r[1] # 0 /\ r[1] # -1000
\* the adapter paths 0..8 of the device, other than the one given, that the
\* snapshot holds with a Device1 record
Siblings ==
    {p \in {Path(Digit(i), InPath.dev) : i \in 0..8} :
        p # InPath /\ p \in DOMAIN properties
        /\ "org.bluez.Device1" \in DOMAIN properties[p]}
OriginalPresent ==
    InPath \in DOMAIN properties /\ "org.bluez.Device1" \in DOMAIN properties[InPath]
Returned == ret.device # PyNone
ReturnedPath == ret.device[1].details.path
Resolved == Called /\ manager_ok /\ "path" \in DOMAIN call.device.details

\* the strength the k-th preferred path had to beat
BeatenBy(k) == IF k = 1 THEN InRssi[1] ELSE RssiAt(ret.found[k - 1])[1]

C7_Case == Resolved /\ OriginalPresent /\ StrengthKnown(InRssi)

\* C7 (as amended): with the original path present and the handle's strength
\* known, every sibling the scan prefers has a known strength that is at
\* least the handle's plus RSSI_SWITCH_THRESHOLD (6) and not lower than the
\* best so far; a sibling below the handle's strength is never preferred.
C7_PreferredOnlyAtThreshold ==
    C7_Case =>
        /\ \A k \in 1..Len(ret.found) :
             /\ StrengthKnown(RssiAt(ret.found[k]))
             /\ RssiAt(ret.found[k])[1] >= InRssi[1] + 6
             /\ RssiAt(ret.found[k])[1] >= BeatenBy(k)
        /\ \A p \in Siblings :
             (StrengthKnown(RssiAt(p)) /\ RssiAt(p)[1] < InRssi[1] + 6)
                => \A k \in 1..Len(ret.found) : ret.found[k] # p
        /\ (Returned <=> ret.found # <<>>)
        /\ (Returned => ReturnedPath = ret.found[Len(ret.found)])

\* C7 as claimed: a preferred sibling exceeds the handle's strength by more
\* than 6, so one at exactly the handle's strength plus 6 is rejected.
C7_AsClaimed ==
    C7_Case =>
        \A k \in 1..Len(ret.found) : RssiAt(ret.found[k])[1] > InRssi[1] + 6

\* a sibling at exactly +6 was preferred and a sibling at +5 was passed over
C7_Witness ==
    /\ C7_Case
    /\ Len(ret.found) = 1
    /\ RssiAt(ret.found[1])[1] = InRssi[1] + 6
    /\ \E p \in Siblings : RssiAt(p) = <<InRssi[1] + 5>>

C8_Case == Resolved /\ ~OriginalPresent

\* C8: when the original path is absent from the snapshot (or has no Device1
\* record), the resolver returns a handle exactly when some sibling path is
\* present, and the handle is for a present sibling, whatever the strengths.
C8_VanishedTakesAnySibling ==
    C8_Case =>
        /\ (Returned <=> Siblings # {})
        /\ (Returned => ReturnedPath \in Siblings)

\* get_device found the device on a sibling whose entry records no strength,
\* and a handle with a known last strength was moved to a weaker sibling
C8_Witness ==
    /\ C8_Case
    /\ Returned
    /\ \/ call.fn = "get_device" /\ RssiAt(ReturnedPath) = PyNone
       \/ /\ call.fn = "freshen_ble_device"
          /\ InRssi = <<-64>>
          /\ RssiAt(ReturnedPath) = <<-70>>

C9_Case ==
    /\ Resolved /\ OriginalPresent
    /\ StrengthKnown(InRssi)
    /\ InRssi = RssiAt(InPath)
    /\ \A p \in Siblings :
         StrengthKnown(RssiAt(p)) => RssiAt(p)[1] <= InRssi[1]

\* C9: a handle whose path is present, whose strength is the snapshot's and
\* which no sibling exceeds resolves to none; and the resolver never returns
\* a handle for the path it was given.
C9_BestPathResolvesToNone ==
    /\ C9_Case => ~Returned
    /\ (Called /\ Returned /\ "path" \in DOMAIN call.device.details)
          => ReturnedPath # InPath

\* the handle is the best path, a sibling ties with it, and none is returned
C9_Witness ==
    /\ C9_Case
    /\ \E p \in Siblings : RssiAt(p) = InRssi
    /\ ~Returned

\* the strength of a path as the snapshot records it
C10_Best(p) ==
    StrengthKnown(RssiAt(p)) =>
        /\ StrengthKnown(RssiAt(ReturnedPath))
        /\ RssiAt(p)[1] <= RssiAt(ReturnedPath)[1]
C10_Carries ==
    ret.device[1].rssi =
        IF StrengthKnown(RssiAt(ReturnedPath)) THEN RssiAt(ReturnedPath)
        ELSE <<-1000>>

\* C10 (as amended): a returned handle is for the strongest sibling: no
\* sibling path of the snapshot records a strength greater than the returned
\* path's, the handle carries the returned path's strength (-1000 when the
\* path records none), and that strength is at least the given handle's
\* plus 6 when the original path is present and the handle's strength known.
C10_ReturnedIsBestSibling ==
    (Resolved /\ Returned) =>
        /\ ReturnedPath \in Siblings
        /\ \A p \in Siblings : C10_Best(p)
        /\ C10_Carries
        /\ (OriginalPresent /\ StrengthKnown(InRssi))
              => ret.device[1].rssi[1] >= InRssi[1] + 6

\* C10 as claimed: no present adapter path, the original included, records a
\* strength greater than the returned path's.
C10_AsClaimed ==
    (Resolved /\ Returned) =>
        /\ \A p \in Siblings : C10_Best(p)
        /\ OriginalPresent => C10_Best(InPath)
        /\ C10_Carries

\* two siblings qualified and the stronger, met first, was kept
C10_Witness ==
    /\ Resolved /\ Returned /\ OriginalPresent
    /\ InRssi = <<-70>>
    /\ RssiAt(ReturnedPath) = <<-63>>
    /\ \E p \in Siblings : RssiAt(p) = <<-64>> /\ p.hci = "2"

(***************************************************************************)
(* Claims about BleakClientWithServiceCache (checked under ClientSpec)     *)
(***************************************************************************)
UsableCache(c) == ~BLEAK_HAS_SERVICE_CACHE_SUPPORT /\ IS_LINUX /\ c.cached_services # "None"

\* get_services was called on a connected client with no usable cache and
\* the underlying get_services raised
C11_Case ==
    /\ call.fn = "get_services"
    /\ call.self.is_connected
    /\ ~UsableCache(call.self)
    /\ exc # NoExc

\* C11: when get_services finds no usable cache and the underlying
\* get_services raises, disconnect is invoked before an error leaves, and
\* the get_services failure never leaves with the client still connected.
C11_DisconnectsBeforeRaising ==
    C11_Case =>
        /\ raised # NoRaise
        /\ ret.calls = <<"super.get_services", "disconnect">>
        /\ raised.from = "super.get_services" => ~client.is_connected

\* the store entries that carry the GATT service marker
Marked == {p \in DOMAIN properties : "org.bluez.GattService1" \in DOMAIN properties[p]}
\* connect was called on a client with a usable cache
C19_Case == call.fn = "connect" /\ UsableCache(call.self)
\* the vanish check could read the store and the path of the client's device
C19_Readable == manager_ok /\ "path" \in DOMAIN call.self.details
\* a marked entry at or below the device's path: the device's path is a
\* prefix of the entry's path
C19_FoundBelow ==
    /\ C19_Readable
    /\ \E p \in Marked :
         \A seg \in {"hci", "dev"} :
            seg \in DOMAIN p /\ p[seg] = call.self.details.path[seg]
\* a marked entry whose path is a prefix of the device's path
C19_FoundAbove ==
    /\ C19_Readable
    /\ \E p \in Marked :
         \A seg \in DOMAIN p :
            seg \in {"hci", "dev"} /\ p[seg] = call.self.details.path[seg]

\* C19 (as amended): a client with a usable cache enters the underlying
\* connect with the cache cleared exactly when the vanish check finds no
\* marked entry whose path starts with the device's path (none is found
\* either when the store cannot be read); when one exists the client is
\* unchanged on entering the underlying connect, and afterwards the cache is
\* the one it entered with unless connect returned True with
\* dangerous_use_bleak_cache false, which stores the client's services.
C19_ClearedWhenNoServiceBelow ==
    C19_Case =>
        /\ call.entered.cached_services = "None" <=> ~C19_FoundBelow
        /\ C19_FoundBelow => call.entered = call.self
        /\ client.cached_services =
              IF ret.returned = "True" /\ ~call.dangerous_use_bleak_cache
              THEN client.services
              ELSE call.entered.cached_services

\* C19 as claimed: the cache is cleared exactly when no marked entry has a
\* path that is a prefix of the device's path, and is kept through the
\* connect otherwise.
C19_AsClaimed ==
    C19_Case =>
        /\ call.entered.cached_services = "None" <=> ~C19_FoundAbove
        /\ C19_FoundAbove => client.cached_services = call.self.cached_services

\* the store holds the GATT services of another device only, and the cache
\* was cleared
C19_Witness ==
    /\ C19_Case
    /\ C19_Readable
    /\ Marked = {[hci |-> "0", dev |-> "CC:DD", service |-> "service0001"]}
    /\ call.entered.cached_services = "None"
    /\ ret.returned = "True"

====
